---- MODULE Spec2Model ----
(***************************************************************************)
(* Model of oncepleg: main.go (the driver), runtime-service.go (the CRI    *)
(* client facade, _getPods, _getPodStatus) and helper.go (label            *)
(* extraction).  The container runtime behind rs.Client is the             *)
(* environment: it holds a list of sandboxes and a list of containers,     *)
(* answers a listing with the entries its filter matches, and any RPC may  *)
(* fail with a transport error.  The report is a point-in-time view: the   *)
(* runtime's lists do not change while the process runs.                   *)
(***************************************************************************)
EXTENDS Integers, Sequences, FiniteSets, TLC

\* ------------------------------------------------------------ bounds
\* the most sandboxes and containers the runtime holds
MaxSandboxes == 2
MaxContainers == 2

\* ------------------------------------------------------------ helper.go
KubernetesPodNameLabel == "io.kubernetes.pod.name"
KubernetesPodNamespaceLabel == "io.kubernetes.pod.namespace"
KubernetesPodUIDLabel == "io.kubernetes.pod.uid"
KubernetesContainerNameLabel == "io.kubernetes.container.name"

\* a Go nil pointer / nil error
Nil == [nil |-> TRUE]

\* a Go map[string]string with no entries
EmptyLabels == [k \in {} |-> ""]

\* mutant: a missing label yields the label's key instead of ""
getStringValueFromLabel_ReturnsKey(labels, label) ==
    IF label \in DOMAIN labels THEN labels[label] ELSE label

getStringValueFromLabel(labels, label) ==
    IF label \in DOMAIN labels THEN labels[label] ELSE ""

getContainerInfoFromLabels(labels) ==
    [ PodName       |-> getStringValueFromLabel(labels, KubernetesPodNameLabel),
      PodNamespace  |-> getStringValueFromLabel(labels, KubernetesPodNamespaceLabel),
      PodUID        |-> getStringValueFromLabel(labels, KubernetesPodUIDLabel),
      ContainerName |-> getStringValueFromLabel(labels, KubernetesContainerNameLabel) ]

\* ------------------------------------------------------------ runtime-service.go
Pod(id, name, namespace) == [ID |-> id, Name |-> name, Namespace |-> namespace]

\* the filter getKubeletSandboxs builds (lines 227-237)
PodSandboxFilter(podUID, all) ==
    [ LabelSelector |-> IF podUID # "" THEN (KubernetesPodUIDLabel :> podUID)
                                       ELSE EmptyLabels,
      State         |-> IF ~all THEN "SANDBOX_READY" ELSE Nil ]

\* mutant: the selector is set whatever the pod UID is
ContainerFilter_AlwaysSelector(podUID, all) ==
    [ LabelSelector |-> (KubernetesPodUIDLabel :> podUID),
      State         |-> IF ~all THEN "CONTAINER_RUNNING" ELSE Nil ]

\* the filter getKubeletContainers builds (lines 254-263)
ContainerFilter(podUID, all) ==
    [ LabelSelector |-> IF podUID # "" THEN (KubernetesPodUIDLabel :> podUID)
                                       ELSE EmptyLabels,
      State         |-> IF ~all THEN "CONTAINER_RUNNING" ELSE Nil ]

\* the requests the facade sends on rs.Client
ListPodSandboxRequest(filter) == [method |-> "ListPodSandbox", Filter |-> filter]
ListContainersRequest(filter) == [method |-> "ListContainers", Filter |-> filter]
PodSandboxStatusRequest(id) == [method |-> "PodSandboxStatus", PodSandboxId |-> id]
\* mutant: the container loop asks for a sandbox status
ContainerStatusRequest_AsSandbox(id) == PodSandboxStatusRequest(id)

ContainerStatusRequest(id) == [method |-> "ContainerStatus", ContainerId |-> id]

getKubeletSandboxsRequest(podUID, all) ==
    ListPodSandboxRequest(PodSandboxFilter(podUID, all))

getKubeletContainersRequest(podUID, all) ==
    ListContainersRequest(ContainerFilter(podUID, all))

\* the listing _getPodStatus uses to find the sandboxes of a pod (line 157)
StatusSandboxListing(uid) == getKubeletContainersRequest(uid, TRUE)

\* the listing _getPodStatus uses to find the containers of a pod (line 173)
StatusContainerListing(uid) == getKubeletContainersRequest(uid, TRUE)

\* ------------------------------------------------------------ the runtime (environment)
SandboxIds == <<"s1", "s2", "s3", "s4">>
ContainerIds == <<"c1", "c2", "c3", "c4">>

Labels3(uid, name, ns) ==
    (KubernetesPodUIDLabel :> uid) @@ (KubernetesPodNameLabel :> name)
        @@ (KubernetesPodNamespaceLabel :> ns)

SandboxKinds ==
    { [Metadata |-> Nil, State |-> "SANDBOX_NOTREADY", Labels |-> EmptyLabels],
      [Metadata |-> [Uid |-> "p1", Name |-> "nginx", Namespace |-> "default"],
       State |-> "SANDBOX_READY", Labels |-> Labels3("p1", "nginx", "default")],
      [Metadata |-> [Uid |-> "p1", Name |-> "redis", Namespace |-> "kube-system"],
       State |-> "SANDBOX_NOTREADY", Labels |-> Labels3("p1", "redis", "kube-system")],
      [Metadata |-> [Uid |-> "p2", Name |-> "redis", Namespace |-> "default"],
       State |-> "SANDBOX_READY", Labels |-> Labels3("p2", "redis", "default")] }

ContainerMeta == [Name |-> "app", Attempt |-> 0]

ContainerKinds ==
    { [Metadata |-> Nil, State |-> "CONTAINER_EXITED",
       Labels |-> Labels3("p1", "nginx", "default")],
      [Metadata |-> ContainerMeta, State |-> "CONTAINER_RUNNING", Labels |-> EmptyLabels],
      [Metadata |-> ContainerMeta, State |-> "CONTAINER_RUNNING",
       Labels |-> Labels3("p1", "redis", "kube-system")
                    @@ (KubernetesContainerNameLabel :> "app")],
      [Metadata |-> ContainerMeta, State |-> "CONTAINER_RUNNING",
       Labels |-> (KubernetesPodNameLabel :> "redis")
                    @@ (KubernetesPodNamespaceLabel :> "default")] }

SeqsUpTo(S, n) == UNION { [1..k -> S] : k \in 0..n }

WithIds(kinds, ids) ==
    [k \in 1..Len(kinds) |-> [Id |-> ids[k]] @@ kinds[k]]

\* CRI filter semantics: every selector label matches exactly, and the state
\* matches when a state is asked for
Matches(e, filter) ==
    /\ \A k \in DOMAIN filter.LabelSelector :
          k \in DOMAIN e.Labels /\ e.Labels[k] = filter.LabelSelector[k]
    /\ filter.State # Nil => e.State = filter.State

VARIABLES
    rtSandboxes,        \* the runtime's sandboxes
    rtContainers,       \* the runtime's containers
    pc,                 \* where the process is
    pods,               \* _getPods: pods, a map[string]*Pod
    sandboxes,          \* local "sandboxes" of the running function
    containers,         \* local "containers" of the running function
    idx,                \* position of the running range loop
    result,             \* main: pods, as returned by getPods
    podIdx,             \* main: position of the loop over pods (0 before it)
    err,                \* main: err
    rpcLog,             \* every request sent on rs.Client, in order, with the
                        \* position in main's loop it was sent at (0: getPods)
    listErrorsLogged,   \* klog.Errorf lines of failed listings (lines 246, 272)
    statusErrorsLogged  \* klog.Errorf lines of failed status fetches (lines 166, 182)

vars == <<rtSandboxes, rtContainers, pc, pods, sandboxes, containers, idx,
          result, podIdx, err, rpcLog, listErrorsLogged, statusErrorsLogged>>

runtime == <<rtSandboxes, rtContainers>>

\* what the runtime answers to a listing request
Respond(req) ==
    IF req.method = "ListPodSandbox"
    THEN SelectSeq(rtSandboxes, LAMBDA e : Matches(e, req.Filter))
    ELSE SelectSeq(rtContainers, LAMBDA e : Matches(e, req.Filter))

TransportError == [nil |-> FALSE, msg |-> "rpc error"]

NoPods == [u \in {} |-> Nil]

\* main after newRuntimeServiceClient returned the client (main.go line 19),
\* in front of any runtime: up to MaxSandboxes sandboxes and MaxContainers
\* containers, in any order
Init ==
    /\ rtSandboxes \in { WithIds(ks, SandboxIds) : ks \in SeqsUpTo(SandboxKinds, MaxSandboxes) }
    /\ rtContainers \in { WithIds(ks, ContainerIds) : ks \in SeqsUpTo(ContainerKinds, MaxContainers) }
    /\ pc = "getPods"
    /\ pods = NoPods
    /\ sandboxes = <<>>
    /\ containers = <<>>
    /\ idx = 0
    /\ result = <<>>
    /\ podIdx = 0
    /\ err = Nil
    /\ rpcLog = <<>>
    /\ listErrorsLogged = 0
    /\ statusErrorsLogged = 0

Send(req) == rpcLog' = Append(rpcLog, [req |-> req, pod |-> podIdx])

\* klog.Fatal(err) in main: the process exits with a failure status
Fatal(e) ==
    /\ err' = e
    /\ pc' = "fatal"

\* the orders in which a range over a Go map may visit its keys
MapOrders(m) ==
    { f \in [1..Cardinality(DOMAIN m) -> DOMAIN m] :
         \A a, b \in 1..Cardinality(DOMAIN m) : a # b => f[a] # f[b] }

\* lines 145-149: the map's values appended in the order the range visits them
MapToList(m, order) == [k \in 1..Cardinality(DOMAIN m) |-> m[order[k]]]

\* ------------------------------------------------------------ _getPods
\* lines 103-105, getPods 80-82, main 25-27: the sandbox listing failed
GetPodsSandboxListingFailed ==
    /\ listErrorsLogged' = listErrorsLogged + 1
    /\ Fatal(TransportError)
    /\ result' = <<>>
    /\ pods' = NoPods
    /\ UNCHANGED <<sandboxes, containers, idx, podIdx>>

\* lines 101-105: pods := make(map); sandboxes, err := rs.getKubeletSandboxs("", true)
GetPodsListSandboxes ==
    /\ pc = "getPods"
    /\ LET req == getKubeletSandboxsRequest("", TRUE) IN
       /\ Send(req)
       /\ \/ /\ sandboxes' = Respond(req)
             /\ idx' = 1
             /\ pc' = "getPods_sandboxes"
             /\ UNCHANGED <<err, pods, containers, result, podIdx, listErrorsLogged>>
          \/ GetPodsSandboxListingFailed
    /\ UNCHANGED <<runtime, statusErrorsLogged>>

\* lines 108-119: one iteration over a sandbox
SeedFromSandbox(m, s) ==
    IF s.Metadata = Nil THEN m
    ELSE IF s.Metadata.Uid \in DOMAIN m THEN m
    ELSE m @@ (s.Metadata.Uid :> Pod(s.Metadata.Uid, s.Metadata.Name, s.Metadata.Namespace))

AggregateSandbox ==
    /\ pc = "getPods_sandboxes"
    /\ idx <= Len(sandboxes)
    /\ pods' = SeedFromSandbox(pods, sandboxes[idx])
    /\ idx' = idx + 1
    /\ UNCHANGED <<runtime, pc, sandboxes, containers, result, podIdx, err, rpcLog,
                   listErrorsLogged, statusErrorsLogged>>

\* mutant: a failed container listing is logged and the pods seeded so far
\* are returned
GetPodsContainerListingFailed_Partial ==
    /\ listErrorsLogged' = listErrorsLogged + 1
    /\ err' = Nil
    /\ pc' = "main_loop"
    /\ result' = MapToList(pods, CHOOSE order \in MapOrders(pods) : TRUE)
    /\ pods' = NoPods
    /\ sandboxes' = <<>>
    /\ podIdx' = 1
    /\ UNCHANGED <<containers, idx>>

\* lines 123-125, getPods 80-82, main 25-27: the container listing failed
GetPodsContainerListingFailed ==
    /\ listErrorsLogged' = listErrorsLogged + 1
    /\ Fatal(TransportError)
    /\ result' = <<>>
    /\ pods' = NoPods
    /\ sandboxes' = <<>>
    /\ UNCHANGED <<containers, idx, podIdx>>

\* lines 122-125: containers, err := rs.getKubeletContainers("", true)
GetPodsListContainers ==
    /\ pc = "getPods_sandboxes"
    /\ idx > Len(sandboxes)
    /\ LET req == getKubeletContainersRequest("", TRUE) IN
       /\ Send(req)
       /\ \/ /\ containers' = Respond(req)
             /\ idx' = 1
             /\ pc' = "getPods_containers"
             /\ UNCHANGED <<err, pods, sandboxes, result, podIdx, listErrorsLogged>>
          \/ GetPodsContainerListingFailed
    /\ UNCHANGED <<runtime, statusErrorsLogged>>

\* mutant: the map is keyed by the pod name instead of the pod UID
SeedFromContainer_KeyedByName(m, c) ==
    IF c.Metadata = Nil THEN m
    ELSE LET labelledInfo == getContainerInfoFromLabels(c.Labels) IN
         IF labelledInfo.PodName \in DOMAIN m THEN m
         ELSE m @@ (labelledInfo.PodName :>
                      Pod(labelledInfo.PodUID, labelledInfo.PodName, labelledInfo.PodNamespace))

\* mutant: the metadata test is dropped
SeedFromContainer_IgnoreMetadata(m, c) ==
    LET labelledInfo == getContainerInfoFromLabels(c.Labels) IN
    IF labelledInfo.PodUID \in DOMAIN m THEN m
    ELSE m @@ (labelledInfo.PodUID :>
                 Pod(labelledInfo.PodUID, labelledInfo.PodName, labelledInfo.PodNamespace))

\* mutant: the "found" test is dropped, so a container overwrites the entry
SeedFromContainer_Overwrite(m, c) ==
    IF c.Metadata = Nil THEN m
    ELSE LET labelledInfo == getContainerInfoFromLabels(c.Labels) IN
         (labelledInfo.PodUID :>
             Pod(labelledInfo.PodUID, labelledInfo.PodName, labelledInfo.PodNamespace)) @@ m

\* lines 127-142: one iteration over a container
SeedFromContainer(m, c) ==
    IF c.Metadata = Nil THEN m
    ELSE LET labelledInfo == getContainerInfoFromLabels(c.Labels) IN
         IF labelledInfo.PodUID \in DOMAIN m THEN m
         ELSE m @@ (labelledInfo.PodUID :>
                      Pod(labelledInfo.PodUID, labelledInfo.PodName, labelledInfo.PodNamespace))

AggregateContainer ==
    /\ pc = "getPods_containers"
    /\ idx <= Len(containers)
    /\ pods' = SeedFromContainer(pods, containers[idx])
    /\ idx' = idx + 1
    /\ UNCHANGED <<runtime, pc, sandboxes, containers, result, podIdx, err, rpcLog,
                   listErrorsLogged, statusErrorsLogged>>

\* lines 145-151, getPods 83-85, main 24-29: the map becomes a list, in map
\* order, and main starts its loop over it
GetPodsReturn ==
    /\ pc = "getPods_containers"
    /\ idx > Len(containers)
    /\ \E order \in MapOrders(pods) : result' = MapToList(pods, order)
    /\ pc' = "main_loop"
    /\ podIdx' = 1
    /\ idx' = 0
    /\ pods' = NoPods
    /\ sandboxes' = <<>>
    /\ containers' = <<>>
    /\ UNCHANGED <<runtime, err, rpcLog, listErrorsLogged, statusErrorsLogged>>

\* ------------------------------------------------------------ main and _getPodStatus
\* the pod whose status main is reporting (main lines 29-30)
CurrentPod == result[podIdx]

\* mutant: a failed listing of a report is logged and main goes on to the
\* next pod
StatusListingFailed_Skip ==
    /\ listErrorsLogged' = listErrorsLogged + 1
    /\ err' = err
    /\ pc' = "main_loop"
    /\ podIdx' = podIdx + 1
    /\ sandboxes' = <<>>
    /\ containers' = <<>>
    /\ UNCHANGED idx

\* lines 158-160 and 174-176, getPodStatus 91-93, main 31-33: a listing of
\* the report failed
StatusListingFailed ==
    /\ listErrorsLogged' = listErrorsLogged + 1
    /\ Fatal(TransportError)
    /\ sandboxes' = <<>>
    /\ containers' = <<>>
    /\ UNCHANGED <<idx, podIdx>>

\* main line 30, lines 155-160: the first listing of the report
StatusListSandboxes ==
    /\ pc = "main_loop"
    /\ podIdx <= Len(result)
    /\ LET req == StatusSandboxListing(CurrentPod.ID) IN
       /\ Send(req)
       /\ \/ /\ sandboxes' = Respond(req)
             /\ idx' = 1
             /\ pc' = "status_sandboxes"
             /\ UNCHANGED <<err, containers, podIdx, listErrorsLogged>>
          \/ StatusListingFailed
    /\ UNCHANGED <<runtime, pods, result, statusErrorsLogged>>

\* mutant: a failed status fetch is returned to the caller instead of skipped
OnStatusError_Abort ==
    /\ statusErrorsLogged' = statusErrorsLogged + 1
    /\ Fatal(TransportError)
    /\ UNCHANGED <<idx, listErrorsLogged>>

\* lines 165-168 and 181-184: a status fetch failed; the failure is logged
\* and the loop goes on to the next entity
OnStatusError ==
    /\ statusErrorsLogged' = statusErrorsLogged + 1
    /\ idx' = idx + 1
    /\ UNCHANGED <<pc, err, listErrorsLogged>>

\* lines 162-169: one iteration, rs.getPodSandboxStatus(sandbox.Id)
StatusSandbox ==
    /\ pc = "status_sandboxes"
    /\ idx <= Len(sandboxes)
    /\ Send(PodSandboxStatusRequest(sandboxes[idx].Id))
    /\ \/ /\ idx' = idx + 1
          /\ UNCHANGED <<pc, err, listErrorsLogged, statusErrorsLogged>>
       \/ OnStatusError
    /\ UNCHANGED <<runtime, pods, sandboxes, containers, result, podIdx>>

\* lines 173-176: the second listing of the report
StatusListContainers ==
    /\ pc = "status_sandboxes"
    /\ idx > Len(sandboxes)
    /\ LET req == StatusContainerListing(CurrentPod.ID) IN
       /\ Send(req)
       /\ \/ /\ containers' = Respond(req)
             /\ idx' = 1
             /\ pc' = "status_containers"
             /\ UNCHANGED <<err, sandboxes, podIdx, listErrorsLogged>>
          \/ StatusListingFailed
    /\ UNCHANGED <<runtime, pods, result, statusErrorsLogged>>

\* lines 178-185: one iteration, rs.getContainerStatus(c.Id)
StatusContainer ==
    /\ pc = "status_containers"
    /\ idx <= Len(containers)
    /\ Send(ContainerStatusRequest(containers[idx].Id))
    /\ \/ /\ idx' = idx + 1
          /\ UNCHANGED <<pc, err, listErrorsLogged, statusErrorsLogged>>
       \/ OnStatusError
    /\ UNCHANGED <<runtime, pods, sandboxes, containers, result, podIdx>>

\* line 188, getPodStatus 91-97, main 31-34: the report returns nil and main
\* goes on to the next pod
StatusReturn ==
    /\ pc = "status_containers"
    /\ idx > Len(containers)
    /\ pc' = "main_loop"
    /\ podIdx' = podIdx + 1
    /\ idx' = 0
    /\ sandboxes' = <<>>
    /\ containers' = <<>>
    /\ UNCHANGED <<runtime, pods, result, err, rpcLog, listErrorsLogged, statusErrorsLogged>>

\* main line 36: os.Exit(0)
MainExit ==
    /\ pc = "main_loop"
    /\ podIdx > Len(result)
    /\ pc' = "exit0"
    /\ UNCHANGED <<runtime, pods, sandboxes, containers, idx, result, podIdx, err,
                   rpcLog, listErrorsLogged, statusErrorsLogged>>

Next ==
    \/ GetPodsListSandboxes
    \/ AggregateSandbox
    \/ GetPodsListContainers
    \/ AggregateContainer
    \/ GetPodsReturn
    \/ StatusListSandboxes
    \/ StatusSandbox
    \/ StatusListContainers
    \/ StatusContainer
    \/ StatusReturn
    \/ MainExit

Spec == Init /\ [][Next]_vars

Last(seq) == seq[Len(seq)]

IsListing(req) == req.method \in {"ListPodSandbox", "ListContainers"}

IsStatusFetch(req) == req.method \in {"PodSandboxStatus", "ContainerStatus"}

\* the entity a status fetch asks about
FetchId(req) ==
    IF req.method = "PodSandboxStatus" THEN req.PodSandboxId ELSE req.ContainerId

Ids(seq) == [k \in DOMAIN seq |-> seq[k].Id]

Min(S) == CHOOSE x \in S : \A y \in S : x <= y

Values(m) == { m[u] : u \in DOMAIN m }

Elems(seq) == { seq[k] : k \in DOMAIN seq }

\* ------------------------------------------------------------ properties
\* main holds the pod set getPods returned (the list never changes afterwards)
AggregationReturned == podIdx >= 1

\* getPods has just returned its pod set to main
JustReturned == pc = "main_loop" /\ podIdx = 1

\* S and C: what the runtime answered to the two listings of _getPods
ListedSandboxes == Respond(rpcLog[1].req)
ListedContainers == Respond(rpcLog[2].req)

HasMetadata(e) == e.Metadata # Nil

\* the value of a container's pod-UID label, "" when it has none
LabelUID(c) ==
    IF KubernetesPodUIDLabel \in DOMAIN c.Labels THEN c.Labels[KubernetesPodUIDLabel] ELSE ""

LabelOr(c, key, default) == IF key \in DOMAIN c.Labels THEN c.Labels[key] ELSE default

\* the UIDs of the sandboxes of S that have metadata
SandboxUIDs(S) == { e.Metadata.Uid : e \in { x \in Elems(S) : HasMetadata(x) } }

\* the label UIDs of the containers of C that have metadata
ContainerUIDs(C) == { LabelUID(e) : e \in { x \in Elems(C) : HasMetadata(x) } }

ResultIDs == { result[k].ID : k \in DOMAIN result }

\* C1: when both listings succeed, the pod set getPods returns holds exactly
\* one Pod per distinct pod UID, and its IDs are the union of the Uid of every
\* listed sandbox with metadata and the pod-UID label value ("" when the label
\* is missing) of every listed container with metadata.
C1_DedupUnion ==
    JustReturned =>
        /\ ResultIDs = SandboxUIDs(ListedSandboxes) \cup ContainerUIDs(ListedContainers)
        /\ Cardinality(ResultIDs) = Len(result)

C1_Witness ==
    /\ JustReturned
    /\ LET SU == SandboxUIDs(ListedSandboxes)
           CU == ContainerUIDs(ListedContainers) IN
       /\ SU \cap CU # {}
       /\ SU \ CU # {}
       /\ CU \ SU # {}
    /\ Len(ListedSandboxes) + Len(ListedContainers) > Len(result)

\* the first sandbox of S with metadata carrying uid
FirstSandbox(S, uid) ==
    S[Min({ k \in DOMAIN S : HasMetadata(S[k]) /\ S[k].Metadata.Uid = uid })]

\* the first container of C with metadata whose labels give uid
FirstContainer(C, uid) ==
    C[Min({ k \in DOMAIN C : HasMetadata(C[k]) /\ LabelUID(C[k]) = uid })]

Aggregating == pc \in {"getPods_sandboxes", "getPods_containers"}

\* the pods the program holds: the map while aggregating, the list returned
HeldPods == IF Aggregating THEN Values(pods) ELSE IF JustReturned THEN Elems(result) ELSE {}

\* C2: a Pod entry is never overwritten once inserted: at every step of
\* aggregation and in the pod set returned, a pod whose UID some listed
\* sandbox carries has the Name and Namespace of the first such sandbox,
\* whatever later sandboxes or container labels carry; a pod no sandbox
\* carries has those of the first container seeding it.
C2_SeedPrecedence ==
    \A p \in HeldPods :
        LET S == ListedSandboxes IN
        IF p.ID \in SandboxUIDs(S)
        THEN /\ p.Name = FirstSandbox(S, p.ID).Metadata.Name
             /\ p.Namespace = FirstSandbox(S, p.ID).Metadata.Namespace
        ELSE LET first == FirstContainer(ListedContainers, p.ID) IN
             /\ p.Name = getStringValueFromLabel(first.Labels, KubernetesPodNameLabel)
             /\ p.Namespace = getStringValueFromLabel(first.Labels, KubernetesPodNamespaceLabel)

C2_Witness ==
    /\ JustReturned
    /\ \E p \in Elems(result) :
          /\ \E c \in Elems(ListedContainers) :
                /\ HasMetadata(c)
                /\ LabelUID(c) = p.ID
                /\ LabelOr(c, "io.kubernetes.pod.name", "") # p.Name
          /\ \E e \in Elems(ListedSandboxes) :
                /\ HasMetadata(e)
                /\ e.Metadata.Uid = p.ID
                /\ e.Metadata.Name # p.Name

\* the status fetches the running report has issued so far, as entity IDs
ReportFetches ==
    LET log == SelectSeq(rpcLog, LAMBDA e : e.pod = podIdx /\ IsStatusFetch(e.req))
    IN  [k \in DOMAIN log |-> FetchId(log[k].req)]

ReportReturning == pc = "status_containers" /\ idx > Len(containers)

\* C3: once a report's two listings have succeeded, it issues exactly one
\* status fetch per listed entry, in listing order, whichever of the fetches
\* fail (the fetches issued never depend on the failures), it returns no
\* error, and a failed status fetch never ends the run.
C3_PartialFailureTolerance ==
    /\ pc = "status_sandboxes" =>
          ReportFetches = SubSeq(Ids(sandboxes), 1, idx - 1)
    /\ pc = "status_containers" =>
          ReportFetches = Ids(sandboxes) \o SubSeq(Ids(containers), 1, idx - 1)
    /\ ReportReturning =>
          /\ Len(ReportFetches) = Len(sandboxes) + Len(containers)
          /\ err = Nil
    /\ pc = "fatal" => IsListing(Last(rpcLog).req)

C3_Witness ==
    /\ ReportReturning
    /\ podIdx = 1
    /\ Len(sandboxes) >= 1
    /\ Len(containers) >= 1
    /\ statusErrorsLogged >= 1
    /\ statusErrorsLogged < Len(sandboxes) + Len(containers)

\* the listings a report has issued, in order
ReportListings(n) == SelectSeq(rpcLog, LAMBDA e : e.pod = n /\ IsListing(e.req))

\* C4: in every status report the first listing is a ListPodSandbox and the
\* second a ListContainers, both selecting the pod's UID in "all" mode; every
\* PodSandboxStatus is issued for an ID the report's sandbox listing returned
\* and every ContainerStatus for an ID its container listing returned.
C4_ListingsTargetDistinctEntities ==
    /\ \A n \in 1..Len(result) :
          LET ls == ReportListings(n) IN
          /\ Len(ls) >= 1 => ls[1].req = getKubeletSandboxsRequest(result[n].ID, TRUE)
          /\ Len(ls) >= 2 => ls[2].req = getKubeletContainersRequest(result[n].ID, TRUE)
    /\ \A k \in DOMAIN rpcLog :
          LET e == rpcLog[k] IN
          /\ e.req.method = "PodSandboxStatus" =>
                \E j \in 1..(k - 1) :
                    /\ rpcLog[j].pod = e.pod
                    /\ rpcLog[j].req.method = "ListPodSandbox"
                    /\ \E x \in Elems(Respond(rpcLog[j].req)) : x.Id = e.req.PodSandboxId
          /\ e.req.method = "ContainerStatus" =>
                \E j \in 1..(k - 1) :
                    /\ rpcLog[j].pod = e.pod
                    /\ rpcLog[j].req.method = "ListContainers"
                    /\ \E x \in Elems(Respond(rpcLog[j].req)) : x.Id = e.req.ContainerId

\* C5: a failed sandbox listing ends aggregation with that error, no pod set
\* and no container listing requested; a failed container listing ends it with
\* that error and no pod set, whatever the sandboxes seeded; a pod set is
\* returned only after both listings succeeded.
C5_ListingFailureFatal ==
    /\ (podIdx = 0 /\ listErrorsLogged > 0) =>
          /\ pc = "fatal"
          /\ err = TransportError
          /\ result = <<>>
          /\ Len(rpcLog) \in {1, 2}
          /\ Last(rpcLog).req.method = "ListPodSandbox" => Len(rpcLog) = 1
    /\ (AggregationReturned \/ result # <<>>) =>
          /\ Len(rpcLog) >= 2
          /\ rpcLog[1].req.method = "ListPodSandbox"
          /\ rpcLog[2].req.method = "ListContainers"
          /\ listErrorsLogged > 0 => Last(rpcLog).pod >= 1

C5_Witness ==
    /\ pc = "fatal"
    /\ podIdx = 0
    /\ Len(rpcLog) = 2
    /\ Cardinality(SandboxUIDs(ListedSandboxes)) = 2
    /\ result = <<>>

Terminated == pc \in {"exit0", "fatal"}

\* C6: the process ends abnormally exactly when a listing call failed (one of
\* getPods or one of a pod's report), with that error; otherwise it runs on
\* and ends normally only after every aggregated pod has been reported,
\* however many status fetches failed.
C6_ExitSemantics ==
    /\ (pc = "fatal") <=> (listErrorsLogged >= 1)
    /\ pc = "fatal" =>
          /\ err = TransportError
          /\ IsListing(Last(rpcLog).req)
    /\ pc = "exit0" =>
          /\ err = Nil
          /\ AggregationReturned
          /\ podIdx = Len(result) + 1
          /\ \A n \in 1..Len(result) : Len(ReportListings(n)) = 2
    /\ ~Terminated => ENABLED Next

C6_Witness ==
    /\ pc = "exit0"
    /\ Len(result) >= 2
    /\ statusErrorsLogged >= 2

\* the UID of the pod an RPC of a report was issued for
UidAt(k) == result[rpcLog[k].pod].ID

\* the listings among the first k requests sent for the pod of request k
ListingsUpTo(k) ==
    Cardinality({ j \in 3..k : rpcLog[j].pod = rpcLog[k].pod /\ IsListing(rpcLog[j].req) })

\* C7: the two listings of aggregation are the first two RPCs of the run and
\* aggregation issues no other; the RPCs of one pod's report are contiguous in
\* the run; within a report every sandbox-status fetch comes after the first
\* listing and before the second, and every container-status fetch after the
\* second, so no sandbox-status fetch follows a container-status fetch.
\* Stated of the last request sent and every request before it: each step
\* sends at most one request, so every pair of requests of a run is covered.
C7_RpcOrdering ==
    LET c == Len(rpcLog) IN
    /\ c >= 1 => (rpcLog[c].pod = 0 <=> c <= 2)
    /\ c = 1 => rpcLog[1].req.method = "ListPodSandbox"
    /\ c = 2 => rpcLog[2].req.method = "ListContainers"
    /\ c >= 3 =>
          /\ \A a \in 3..(c - 1) :
                UidAt(a) = UidAt(c) =>
                   /\ UidAt(a + 1) = UidAt(a)
                   /\ ~(rpcLog[a].req.method = "ContainerStatus"
                          /\ rpcLog[c].req.method = "PodSandboxStatus")
          /\ rpcLog[c].req.method = "PodSandboxStatus" => ListingsUpTo(c) = 1
          /\ rpcLog[c].req.method = "ContainerStatus" => ListingsUpTo(c) = 2

C7_Witness ==
    /\ pc = "exit0"
    /\ Len(result) >= 2
    /\ \A n \in 1..Len(result) :
          /\ \E k \in DOMAIN rpcLog :
                rpcLog[k].pod = n /\ rpcLog[k].req.method = "PodSandboxStatus"
          /\ \E k \in DOMAIN rpcLog :
                rpcLog[k].pod = n /\ rpcLog[k].req.method = "ContainerStatus"

RECURSIVE FoldSandboxes(_, _)
FoldSandboxes(m, seq) ==
    IF seq = <<>> THEN m ELSE FoldSandboxes(SeedFromSandbox(m, Head(seq)), Tail(seq))

RECURSIVE FoldContainers(_, _)
FoldContainers(m, seq) ==
    IF seq = <<>> THEN m ELSE FoldContainers(SeedFromContainer(m, Head(seq)), Tail(seq))

\* the listing with its entries without metadata removed
WithMetadata(seq) == SelectSeq(seq, HasMetadata)

\* C8: entries without metadata contribute nothing and do not end
\* aggregation: at every point the map is what the entries with metadata
\* processed so far give, and the pod set returned is the one aggregation
\* gives for the two listings with the entries without metadata removed.
C8_SkipMissingMetadata ==
    /\ pc = "getPods_sandboxes" =>
          /\ err = Nil
          /\ pods = FoldSandboxes(NoPods, WithMetadata(SubSeq(sandboxes, 1, idx - 1)))
    /\ pc = "getPods_containers" =>
          /\ err = Nil
          /\ pods = FoldContainers(FoldSandboxes(NoPods, WithMetadata(sandboxes)),
                                   WithMetadata(SubSeq(containers, 1, idx - 1)))
    /\ JustReturned =>
          Elems(result) =
             Values(FoldContainers(FoldSandboxes(NoPods, WithMetadata(ListedSandboxes)),
                                   WithMetadata(ListedContainers)))

C8_Witness ==
    /\ JustReturned
    /\ \E e \in Elems(ListedSandboxes) : ~HasMetadata(e)
    /\ \E c \in Elems(ListedContainers) :
          /\ ~HasMetadata(c)
          /\ LabelUID(c) # ""
          /\ LabelUID(c) \notin ResultIDs
    /\ result # <<>>

\* the containers of C with metadata and no pod-UID label
Unlabeled(C) ==
    { c \in Elems(C) : HasMetadata(c) /\ KubernetesPodUIDLabel \notin DOMAIN c.Labels }

UIDs == {"", "p1", "p2"}

\* C10: a listing request carries a label selector (the pod-UID label, exact
\* value) exactly when the pod UID is not "", and a state constraint (ready
\* for sandboxes, running for containers) exactly when all is false; so each
\* listing of a report is in "all" mode, answers only and all entities
\* labelled with the pod's UID when that UID is not "", and answers every
\* entity of the runtime's listing when it is "".  The second part is stated
\* of the last request sent, which covers every request of a run.
C10_FilterConstruction ==
    /\ pc = "getPods" =>
          \A uid \in UIDs, all \in BOOLEAN :
             LET f == getKubeletSandboxsRequest(uid, all).Filter
                 g == getKubeletContainersRequest(uid, all).Filter IN
             /\ f.LabelSelector = IF uid # "" THEN [k \in {"io.kubernetes.pod.uid"} |-> uid]
                                              ELSE EmptyLabels
             /\ g.LabelSelector = f.LabelSelector
             /\ f.State = IF all THEN Nil ELSE "SANDBOX_READY"
             /\ g.State = IF all THEN Nil ELSE "CONTAINER_RUNNING"
    /\ (Len(rpcLog) >= 3 /\ IsListing(Last(rpcLog).req)) =>
          LET req == Last(rpcLog).req
              uid == UidAt(Len(rpcLog))
              known == IF req.method = "ListPodSandbox" THEN rtSandboxes ELSE rtContainers
              answer == Respond(req) IN
          /\ req.Filter.State = Nil
          /\ DOMAIN req.Filter.LabelSelector # {} <=> uid # ""
          /\ uid # "" =>
                /\ req.Filter.LabelSelector["io.kubernetes.pod.uid"] = uid
                /\ Elems(answer) =
                      { e \in Elems(known) :
                          /\ "io.kubernetes.pod.uid" \in DOMAIN e.Labels
                          /\ e.Labels["io.kubernetes.pod.uid"] = uid }
          /\ uid = "" => answer = known

C10_Witness ==
    /\ Len(rpcLog) >= 3
    /\ IsListing(Last(rpcLog).req)
    /\ UidAt(Len(rpcLog)) = ""
    /\ \E e \in Elems(Respond(Last(rpcLog).req)) : LabelUID(e) = "p1"
    /\ \E k \in 3..Len(rpcLog) :
          /\ IsListing(rpcLog[k].req)
          /\ UidAt(k) = "p1"
          /\ Len(Respond(rpcLog[k].req)) = 1
    /\ Len(rtContainers) = 2
====
